---- MODULE Spec2Model ----
(***************************************************************************)
(* Model of modules/vector_store.py: the VectorStore class, its embedding  *)
(* provider fallback, its in-memory collection (documents,                 *)
(* document_metadata, embeddings) and the pickle file vector_db.pkl.       *)
(*                                                                         *)
(* A vector is a record [dim, v]: a point of R^dim whose first two         *)
(* coordinates are v[1], v[2] and whose other coordinates are 0.  The      *)
(* dimension is kept at its real value (384, 768) because the code's       *)
(* failures are about dimensions, while two coordinates are enough to      *)
(* order cosine similarities.                                              *)
(*                                                                         *)
(* np.array() of a list of vectors of different lengths is modelled as     *)
(* NumPy >= 1.24 does it: ValueError (inhomogeneous shape).                *)
(*                                                                         *)
(* Specifications:                                                         *)
(*   Spec             one store on a directory that starts empty; every    *)
(*                    call runs to its end before the next begins          *)
(*   SpecAnyFile      the same calls, the directory holding any file when  *)
(*                    the first store is constructed                       *)
(*   SpecShared       two sessions of the application, each with its own   *)
(*                    store, on one directory                              *)
(*   SpecInterleaved  one store whose add_documents / clear and search     *)
(*                    calls interleave statement by statement              *)
(***************************************************************************)
EXTENDS Integers, Sequences, FiniteSets, TLC

\* ---------------------------------------------------------------- bounds
MaxDocs == 2        \* texts held by a store
MaxFaultyCalls == 1 \* calls of one run during which the outside world fails

\* ------------------------------------------------------ program constants
ZeroDim == 768      \* np.zeros(768)
STDim == 384        \* all-MiniLM-L6-v2 and paraphrase-MiniLM-L3-v2
GoogleDim == 768    \* Google embedding model

DefaultModelName == "all-MiniLM-L6-v2"
FallbackModelName == "paraphrase-MiniLM-L3-v2"

\* ------------------------------------------------------------- inputs
Texts == {"cats", "stock"}
Providers == {"google", "sentence_transformer"}

\* What the outside world does during one embedding request:
\*   "ok"         every call that is made succeeds
\*   "api_down"   the Google call raises; SentenceTransformer works
\*   "init_fail"  the Google call raises and SentenceTransformer(model_name) raises
\*   "enc_fail"   encode() raises (and so does the Google call, when one is made)
EmbedEnv == {"ok", "api_down", "init_fail", "enc_fail"}
ApiOk(e) == e = "ok"
InitOk(e) == e # "init_fail"
EncOk(e) == e # "enc_fail"

\* What the file system does during save_database
SaveEnv == {"ok", "open_fail", "dump_fail"}

Min(a, b) == IF a <= b THEN a ELSE b
Max(a, b) == IF a >= b THEN a ELSE b
Abs(a) == IF a >= 0 THEN a ELSE -a

\* ------------------------------------------------------------- vectors
Vec(d, c) == [dim |-> d, v |-> c]
Zeros(d) == Vec(d, <<0, 0>>)
NoVec == Vec(0, <<0, 0>>)

\* direction of the embedding of a text (the same for both backends)
Direction(text) ==
    CASE text = "cats" -> <<1, 0>>
      [] text = "stock" -> <<-1, 1>>

\* SentenceTransformer.encode(text)
STEncode(text) == Vec(STDim, Direction(text))

\* genai embed_content(content=text, task_type=...)["embedding"]
GoogleEmbedContent(text, task_type) == Vec(GoogleDim, Direction(text))

Dot(a, b) == a.v[1] * b.v[1] + a.v[2] * b.v[2]
Norm2(a) == Dot(a, a)

CosineZeroLowest(q, a) ==
    IF Norm2(q) = 0 \/ Norm2(a) = 0
    THEN [num |-> -1, den |-> 1]
    ELSE [num |-> Dot(q, a) * Abs(Dot(q, a)), den |-> Norm2(q) * Norm2(a)]

\* sklearn cosine_similarity of two vectors of the same dimension.  The
\* score c is represented exactly by the fraction num/den = c * |c|, which
\* orders as c does; a zero vector is normalised with norm 1 and scores 0.
Cosine(q, a) ==
    IF Norm2(q) = 0 \/ Norm2(a) = 0
    THEN [num |-> 0, den |-> 1]
    ELSE [num |-> Dot(q, a) * Abs(Dot(q, a)), den |-> Norm2(q) * Norm2(a)]

ScoreLE(s, t) == s.num * t.den <= t.num * s.den
ScoreLT(s, t) == s.num * t.den < t.num * s.den
ScoreEQ(s, t) == s.num * t.den = t.num * s.den

\* ------------------------------------------------------------- metadata
\* metadata = [{"id": str(uuid.uuid4()), "index": i} for i in range(len(documents))]
SynthMetadata(n) == [i \in 1..n |-> [id |-> "uuid4", index |-> i - 1]]

\* a metadata list supplied by the caller (as split_text_into_chunks builds it)
CallerMetadata(n) == [i \in 1..n |-> [id |-> "doc", index |-> i - 1]]

NoneMeta == [given |-> FALSE, list |-> <<>>]
GivenMeta(n) == [given |-> TRUE, list |-> CallerMetadata(n)]

\* ------------------------------------------------------------- embeddings matrix
\* self.embeddings: None, or a 2-D array given by its rows
NoneEmb == [isNone |-> TRUE, rows |-> <<>>]
Matrix(rows) == [isNone |-> FALSE, rows |-> rows]

\* len(self.embeddings), an absent matrix counting as 0 rows
NumRows(emb) == IF emb.isNone THEN 0 ELSE Len(emb.rows)

SameDim(rows) == \A i, j \in 1..Len(rows) : rows[i].dim = rows[j].dim

\* ------------------------------------------------------------- construction
InitModelKeepsName(provider, name, primaryOk, secondaryOk) ==
    IF provider = "google"
    THEN IF primaryOk
         THEN [raised |-> FALSE, provider |-> "google", model_name |-> name, model |-> "genai"]
         ELSE IF secondaryOk
              THEN [raised |-> FALSE, provider |-> "sentence_transformer",
                    model_name |-> name, model |-> "st"]
              ELSE [raised |-> TRUE, provider |-> "sentence_transformer",
                    model_name |-> name, model |-> "none"]
    ELSE IF primaryOk
         THEN [raised |-> FALSE, provider |-> provider, model_name |-> name, model |-> "st"]
         ELSE IF secondaryOk
              THEN [raised |-> FALSE, provider |-> provider,
                    model_name |-> name, model |-> "st"]
              ELSE [raised |-> TRUE, provider |-> provider,
                    model_name |-> name, model |-> "none"]

\* The embedding model chosen by __init__.  primaryOk / secondaryOk: whether the
\* first / the second model that is tried initialises.
InitModel(provider, name, primaryOk, secondaryOk) ==
    IF provider = "google"
    THEN IF primaryOk
         THEN [raised |-> FALSE, provider |-> "google", model_name |-> name, model |-> "genai"]
         ELSE IF secondaryOk
              THEN [raised |-> FALSE, provider |-> "sentence_transformer",
                    model_name |-> name, model |-> "st"]
              ELSE [raised |-> TRUE, provider |-> "sentence_transformer",
                    model_name |-> name, model |-> "none"]
    ELSE IF primaryOk
         THEN [raised |-> FALSE, provider |-> provider, model_name |-> name, model |-> "st"]
         ELSE IF secondaryOk
              THEN [raised |-> FALSE, provider |-> provider,
                    model_name |-> FallbackModelName, model |-> "st"]
              ELSE [raised |-> TRUE, provider |-> provider,
                    model_name |-> FallbackModelName, model |-> "none"]

\* ------------------------------------------------------------- persistence
\* The dictionary that save_database pickles
Database(docs, metadata, emb, provider, name) ==
    [documents |-> docs, document_metadata |-> metadata, embeddings |-> emb,
     embedding_provider |-> provider, model_name |-> name]

NoDatabase == Database(<<>>, <<>>, NoneEmb, "", "")

\* vector_db.pkl: absent, unreadable, or the pickle of a dictionary
AbsentFile == [state |-> "absent", db |-> NoDatabase]
CorruptFile == [state |-> "corrupt", db |-> NoDatabase]
PickleFile(db) == [state |-> "ok", db |-> db]

SaveDatabaseOnce(f, docs, metadata, emb, provider, name, env) ==
    CASE env = "ok" -> IF f.state = "ok" THEN f
                       ELSE PickleFile(Database(docs, metadata, emb, provider, name))
      [] env = "open_fail" -> f
      [] env = "dump_fail" -> CorruptFile

\* save_database: open(..., "wb") then pickle.dump; every exception is swallowed.
\* A failing open leaves the file as it was, a failing dump leaves it truncated.
SaveDatabase(f, docs, metadata, emb, provider, name, env) ==
    CASE env = "ok" -> PickleFile(Database(docs, metadata, emb, provider, name))
      [] env = "open_fail" -> f
      [] env = "dump_fail" -> CorruptFile

\* database.get(key, default)
Get(db, key, default) == IF key \in DOMAIN db THEN db[key] ELSE default

LoadDatabaseWithoutEmbeddings(f) ==
    IF f.state = "ok"
    THEN [loaded |-> TRUE,
          documents |-> Get(f.db, "documents", <<>>),
          document_metadata |-> Get(f.db, "document_metadata", <<>>),
          embeddings |-> Get(f.db, "embedding", NoneEmb)]
    ELSE [loaded |-> FALSE, documents |-> <<>>, document_metadata |-> <<>>,
          embeddings |-> NoneEmb]

\* load_database, called on the freshly constructed (empty) store; every
\* exception is swallowed and leaves the store empty.
LoadDatabase(f) ==
    IF f.state = "ok"
    THEN [loaded |-> TRUE,
          documents |-> Get(f.db, "documents", <<>>),
          document_metadata |-> Get(f.db, "document_metadata", <<>>),
          embeddings |-> Get(f.db, "embeddings", NoneEmb)]
    ELSE [loaded |-> FALSE, documents |-> <<>>, document_metadata |-> <<>>,
          embeddings |-> NoneEmb]

RemoveFileSkipped(f, removeOk) == f

\* os.remove(db_path) inside clear(), its exception swallowed
RemoveFile(f, removeOk) ==
    IF f.state # "absent" /\ removeOk THEN AbsentFile ELSE f

\* ------------------------------------------------------------- embed_text
Raised(p, m) == [raised |-> TRUE, provider |-> p, model |-> m, vec |-> NoVec]
Returned(p, m, vec) == [raised |-> FALSE, provider |-> p, model |-> m, vec |-> vec]

\* self.embedding_model.encode(text): only a SentenceTransformer has encode
Encode(p, m, text, e) ==
    IF m = "st" /\ EncOk(e) THEN Returned(p, m, STEncode(text)) ELSE Raised(p, m)

EmbedText(p, m, text, e) ==
    IF p = "google"
    THEN IF m = "genai" /\ ApiOk(e)
         THEN Returned(p, m, GoogleEmbedContent(text, "retrieval_document"))
         ELSE IF m # "st"
              THEN IF InitOk(e)
                   THEN Encode("sentence_transformer", "st", text, e)
                   ELSE Raised("sentence_transformer", m)
              ELSE Encode(p, m, text, e)
    ELSE Encode(p, m, text, e)

\* the placeholder of add_documents for a text whose embedding raised
Placeholder == Zeros(ZeroDim)

\* the loop "for doc in documents" of add_documents
RECURSIVE EmbedLoop(_, _, _, _, _)
EmbedLoop(p, m, docs, env, acc) ==
    IF Len(acc) = Len(docs)
    THEN [provider |-> p, model |-> m, new_embeddings |-> acc]
    ELSE LET i == Len(acc) + 1
             r == EmbedText(p, m, docs[i], env[i])
         IN EmbedLoop(r.provider, r.model, docs, env,
                      Append(acc, IF r.raised THEN Placeholder ELSE r.vec))

\* np.array(new_embeddings)
NpArray(list) ==
    IF SameDim(list)
    THEN [raised |-> FALSE, value |-> Matrix(list)]
    ELSE [raised |-> TRUE, value |-> NoneEmb]

VStackNewOnly(emb, new) ==
    IF /\ Len(emb.rows) > 0
       /\ Len(new.rows) > 0
       /\ SameDim(emb.rows \o new.rows)
    THEN [raised |-> FALSE, value |-> Matrix(new.rows)]
    ELSE [raised |-> TRUE, value |-> NoneEmb]

\* np.vstack([self.embeddings, new_embeddings_array])
VStack(emb, new) ==
    IF /\ Len(emb.rows) > 0
       /\ Len(new.rows) > 0
       /\ SameDim(emb.rows \o new.rows)
    THEN [raised |-> FALSE, value |-> Matrix(emb.rows \o new.rows)]
    ELSE [raised |-> TRUE, value |-> NoneEmb]

\* if not documents: return
EmptyBatch(docs) == Len(docs) = 0

MetadataShorter(metadata, docs) == Len(metadata) < Len(docs)

\* elif len(metadata) != len(documents): raise ValueError
MetadataMismatch(metadata, docs) == Len(metadata) # Len(docs)

ExtendAssigns(list, items) == items

\* list.extend
Extend(list, items) == list \o items

\* is_empty()
IsEmpty(docs, emb) == Len(docs) = 0 \/ emb.isNone

\* ------------------------------------------------------------- search
\* the embedding of the query inside search (no fallback there)
EmbedQuery(p, m, query, e) ==
    IF p = "google"
    THEN IF m = "genai" /\ ApiOk(e)
         THEN Returned(p, m, GoogleEmbedContent(query, "retrieval_query"))
         ELSE Raised(p, m)
    ELSE Encode(p, m, query, e)

\* cosine_similarity(query_embedding, self.embeddings)[0]; it raises when the
\* two arguments differ in their number of columns
CosineSimilarity(q, emb) ==
    IF \A i \in 1..Len(emb.rows) : emb.rows[i].dim = q.dim
    THEN [raised |-> FALSE, sims |-> [i \in 1..Len(emb.rows) |-> Cosine(q, emb.rows[i])]]
    ELSE [raised |-> TRUE, sims |-> <<>>]

Perms(n) == {f \in [1..n -> 1..n] : \A i, j \in 1..n : i # j => f[i] # f[j]}

\* np.argsort(similarities): the index orders that sort the scores ascending.
\* The default sort is not stable, so equal scores come in any order.
Argsort(sims) ==
    {f \in Perms(Len(sims)) :
        \A i \in 1..(Len(sims) - 1) : ScoreLE(sims[f[i]], sims[f[i + 1]])}

\* a[-k:]
SliceLast(a, k) ==
    LET n == Len(a)
        start == IF k > 0 THEN Max(n - k, 0) ELSE Min(-k, n)
    IN SubSeq(a, start + 1, n)

\* a[::-1]
Reverse(a) == [i \in 1..Len(a) |-> a[Len(a) + 1 - i]]

\* np.argsort(similarities)[-k:][::-1] for the order the sort produced
TopIndices(order, k) == Reverse(SliceLast(order, k))

\* the loop that builds the result list; an index beyond a list raises
BuildResults(docs, metadata, sims, top_indices) ==
    IF \A i \in 1..Len(top_indices) :
           top_indices[i] <= Len(docs) /\ top_indices[i] <= Len(metadata)
    THEN [raised |-> FALSE,
          results |-> [i \in 1..Len(top_indices) |->
                          [text |-> docs[top_indices[i]],
                           score |-> sims[top_indices[i]],
                           metadata |-> metadata[top_indices[i]]]]]
    ELSE [raised |-> TRUE, results |-> <<>>]

NoDocuments(docs, emb) == Len(docs) = 0

\* the guard of search: if not self.documents or self.embeddings is None or ...
NothingToSearch(docs, emb) == Len(docs) = 0 \/ emb.isNone \/ Len(emb.rows) = 0

\* the orders np.argsort can produce in a search that gets as far as sorting
SearchOrders(docs, emb, p, m, query, e) ==
    IF NothingToSearch(docs, emb) THEN {<<>>}
    ELSE LET q == EmbedQuery(p, m, query, e)
             cs == CosineSimilarity(q.vec, emb)
         IN IF q.raised \/ cs.raised THEN {<<>>} ELSE Argsort(cs.sims)

SearchKeepsFirst(docs, metadata, emb, p, m, query, top_k, e, order) ==
    IF NothingToSearch(docs, emb)
    THEN [results |-> <<>>, top_indices |-> <<>>, embeds |-> 0, failed |-> FALSE]
    ELSE LET q == EmbedQuery(p, m, query, e)
             cs == CosineSimilarity(q.vec, emb)
             k == Min(top_k, Len(docs))
             top == TopIndices(order, k)
             built == BuildResults(docs, metadata, cs.sims, top)
         IN IF q.raised \/ cs.raised \/ built.raised
            THEN [results |-> <<docs[1]>>, top_indices |-> <<1>>, embeds |-> 1,
                  failed |-> TRUE]
            ELSE [results |-> built.results, top_indices |-> top, embeds |-> 1,
                  failed |-> FALSE]

\* search(query, top_k), order being the outcome of np.argsort
Search(docs, metadata, emb, p, m, query, top_k, e, order) ==
    IF NothingToSearch(docs, emb)
    THEN [results |-> <<>>, top_indices |-> <<>>, embeds |-> 0, failed |-> FALSE]
    ELSE LET q == EmbedQuery(p, m, query, e)
             cs == CosineSimilarity(q.vec, emb)
             k == Min(top_k, Len(docs))
             top == TopIndices(order, k)
             built == BuildResults(docs, metadata, cs.sims, top)
         IN IF q.raised \/ cs.raised \/ built.raised
            THEN [results |-> <<>>, top_indices |-> <<>>, embeds |-> 1, failed |-> TRUE]
            ELSE [results |-> built.results, top_indices |-> top, embeds |-> 1,
                  failed |-> FALSE]

\* ------------------------------------------------------------- state
VARIABLES
    alive,               \* a VectorStore object exists (its construction returned)
    embedding_provider,  \* self.embedding_provider
    model_name,          \* self.model_name
    embedding_model,     \* self.embedding_model: "genai", "st" or "none"
    documents,           \* self.documents
    document_metadata,   \* self.document_metadata
    embeddings,          \* self.embeddings
    file,                \* <storage_dir>/vector_db.pkl
    faulty_calls,        \* calls so far during which the outside world failed
    call,                \* the last call: its arguments, its environment, its outcome
    peer,                \* the VectorStore of another session on the same directory
    task                 \* the calls in progress on the store, when calls interleave

store == <<alive, embedding_provider, model_name, embedding_model,
           documents, document_metadata, embeddings>>
collection == <<documents, document_metadata, embeddings>>
vars == <<alive, embedding_provider, model_name, embedding_model,
          documents, document_metadata, embeddings, file, faulty_calls, call,
          peer, task>>

NoCall ==
    [op |-> "", documents |-> <<>>, metadata |-> NoneMeta, env |-> <<>>,
     save |-> "", exists |-> FALSE, remove |-> TRUE, provider |-> "", primary |-> TRUE,
     secondary |-> TRUE, query |-> "", top_k |-> 0, outcome |-> "",
     results |-> <<>>, top_indices |-> <<>>, embeds |-> 0]

\* no other session
NoPeer ==
    [alive |-> FALSE, embedding_provider |-> "", model_name |-> "",
     embedding_model |-> "none", documents |-> <<>>, document_metadata |-> <<>>,
     embeddings |-> NoneEmb, call |-> NoCall]

\* no add_documents or clear in progress, no search in progress
IdleWriter == [pc |-> "idle", documents |-> <<>>, metadata |-> <<>>]
IdleReader ==
    [pc |-> "idle", query |-> "", top_k |-> 0, q |-> NoVec, sims |-> <<>>,
     top_indices |-> <<>>, results |-> <<>>]
NoTask == [writer |-> IdleWriter, reader |-> IdleReader]

\* ------------------------------------------------------------- inputs of the calls
Batches == UNION {[1..n -> Texts] : n \in 0..MaxDocs}
MetaInputs(docs) == {NoneMeta, GivenMeta(Len(docs)), GivenMeta(Len(docs) + 1)}
\* the failures that can show during one embedding request of a store whose
\* provider is p: only the Google branch of embed_text has a fallback
EnvOf(p) == IF p = "google" THEN EmbedEnv ELSE {"ok", "enc_fail"}
Envs(p, n) == [1..n -> EnvOf(p)]
AllOk(n) == [i \in 1..n |-> "ok"]
SearchEnv == {"ok", "enc_fail"}
TopKs == 0..(MaxDocs + 1)

\* the environment fails in at most MaxFaultyCalls calls of a run
Budget(faulty) == faulty => faulty_calls < MaxFaultyCalls
Spend(faulty) == IF faulty THEN faulty_calls + 1 ELSE faulty_calls

\* ------------------------------------------------------------- __init__
\* VectorStore(embedding_provider=provider) on the storage directory
Construct(provider, primaryOk, secondaryOk) ==
    LET faulty == ~primaryOk
        im == InitModel(provider, DefaultModelName, primaryOk, secondaryOk)
        ld == LoadDatabase(file)
        c == [NoCall EXCEPT !.op = "init", !.provider = provider,
                            !.primary = primaryOk, !.secondary = secondaryOk,
                            !.exists = ~im.raised /\ file.state # "absent"]
    IN /\ primaryOk => secondaryOk
       /\ Budget(faulty)
       /\ faulty_calls' = Spend(faulty)
       /\ alive' = ~im.raised
       /\ embedding_provider' = im.provider
       /\ model_name' = im.model_name
       /\ embedding_model' = im.model
       /\ documents' = IF im.raised THEN <<>> ELSE ld.documents
       /\ document_metadata' = IF im.raised THEN <<>> ELSE ld.document_metadata
       /\ embeddings' = IF im.raised THEN NoneEmb ELSE ld.embeddings
       /\ call' = [c EXCEPT !.outcome = IF im.raised THEN "raised" ELSE "returned"]
       /\ UNCHANGED file

\* ------------------------------------------------------------- add_documents
\* a call that returns or raises before it asks anything of the outside world
NotConsulted(env, save) == save = "ok" /\ env = AllOk(Len(env))

FaultyAdd(env, save) == save # "ok" \/ \E i \in 1..Len(env) : env[i] # "ok"

AddDocuments(docs, meta, env, save) ==
    /\ alive
    /\ Len(documents) + Len(docs) <= MaxDocs
    /\ Budget(FaultyAdd(env, save))
    /\ faulty_calls' = Spend(FaultyAdd(env, save))
    /\ LET c == [NoCall EXCEPT !.op = "add_documents", !.documents = docs,
                               !.metadata = meta, !.env = env, !.save = save]
       IN IF EmptyBatch(docs)
          THEN /\ NotConsulted(env, save)
               /\ call' = [c EXCEPT !.outcome = "returned"]
               /\ UNCHANGED <<store, file>>
          ELSE IF meta.given /\ MetadataMismatch(meta.list, docs)
          THEN /\ NotConsulted(env, save)
               /\ call' = [c EXCEPT !.outcome = "raised"]
               /\ UNCHANGED <<store, file>>
          ELSE
            LET md == IF meta.given THEN meta.list ELSE SynthMetadata(Len(docs))
                docs1 == Extend(documents, docs)
                md1 == Extend(document_metadata, md)
                loop == EmbedLoop(embedding_provider, embedding_model, docs, env, <<>>)
                arr == NpArray(loop.new_embeddings)
                stacked == IF arr.raised THEN arr
                           ELSE IF embeddings.isNone THEN arr
                           ELSE VStack(embeddings, arr.value)
            IN /\ documents' = docs1
               /\ document_metadata' = md1
               /\ embedding_provider' = loop.provider
               /\ embedding_model' = loop.model
               /\ UNCHANGED <<alive, model_name>>
               /\ IF stacked.raised
                  THEN /\ save = "ok"
                       /\ UNCHANGED <<embeddings, file>>
                       /\ call' = [c EXCEPT !.outcome = "raised", !.embeds = Len(docs)]
                  ELSE /\ embeddings' = stacked.value
                       /\ file' = SaveDatabase(file, docs1, md1, stacked.value,
                                               loop.provider, model_name, save)
                       /\ call' = [c EXCEPT !.outcome = "returned", !.embeds = Len(docs)]

\* ------------------------------------------------------------- search
SearchCall(query, top_k, e, order) ==
    /\ alive
    /\ Budget(e # "ok")
    /\ faulty_calls' = Spend(e # "ok")
    /\ order \in SearchOrders(documents, embeddings, embedding_provider,
                              embedding_model, query, e)
    /\ LET r == Search(documents, document_metadata, embeddings, embedding_provider,
                       embedding_model, query, top_k, e, order)
       IN call' = [NoCall EXCEPT !.op = "search", !.query = query, !.top_k = top_k,
                                 !.env = <<e>>, !.outcome = "returned",
                                 !.results = r.results, !.top_indices = r.top_indices,
                                 !.embeds = r.embeds]
    /\ UNCHANGED <<store, file>>

\* ------------------------------------------------------------- clear
Clear(removeOk) ==
    /\ alive
    /\ Budget(~removeOk)
    /\ faulty_calls' = Spend(~removeOk)
    /\ documents' = <<>>
    /\ document_metadata' = <<>>
    /\ embeddings' = NoneEmb
    /\ file' = RemoveFile(file, removeOk)
    /\ call' = [NoCall EXCEPT !.op = "clear", !.exists = file.state # "absent",
                              !.remove = removeOk, !.outcome = "returned"]
    /\ UNCHANGED <<alive, embedding_provider, model_name, embedding_model>>

\* ------------------------------------------------------------- specification
\* a first store constructed on an empty storage directory
Init ==
    /\ file = AbsentFile
    /\ \E provider \in Providers, primaryOk, secondaryOk \in BOOLEAN :
          LET im == InitModel(provider, DefaultModelName, primaryOk, secondaryOk)
          IN /\ primaryOk => secondaryOk
             /\ faulty_calls = IF primaryOk THEN 0 ELSE 1
             /\ alive = ~im.raised
             /\ embedding_provider = im.provider
             /\ model_name = im.model_name
             /\ embedding_model = im.model
             /\ call = [NoCall EXCEPT !.op = "init", !.provider = provider,
                                      !.primary = primaryOk, !.secondary = secondaryOk,
                                      !.outcome = IF im.raised THEN "raised"
                                                  ELSE "returned"]
    /\ documents = <<>>
    /\ document_metadata = <<>>
    /\ embeddings = NoneEmb
    /\ peer = NoPeer
    /\ task = NoTask

\* the calls of one session, each running to its end before the next begins
DoConstruct == \E provider \in Providers, primaryOk, secondaryOk \in BOOLEAN :
                  /\ Construct(provider, primaryOk, secondaryOk)
                  /\ UNCHANGED <<peer, task>>
DoAddDocuments == \E docs \in Batches, save \in SaveEnv :
                     \E meta \in MetaInputs(docs),
                        env \in Envs(embedding_provider, Len(docs)) :
                        /\ AddDocuments(docs, meta, env, save)
                        /\ UNCHANGED <<peer, task>>
DoSearch == \E query \in Texts, top_k \in TopKs, e \in SearchEnv :
               \E order \in SearchOrders(documents, embeddings, embedding_provider,
                                         embedding_model, query, e) :
                  /\ SearchCall(query, top_k, e, order)
                  /\ UNCHANGED <<peer, task>>
DoClear == \E removeOk \in BOOLEAN : Clear(removeOk) /\ UNCHANGED <<peer, task>>

Next == DoConstruct \/ DoAddDocuments \/ DoSearch \/ DoClear

Spec == Init /\ [][Next]_vars

\* ------------------------------------------------------------- properties
\* the arguments of the last call
Batch == call.documents
MetaRejected == call.metadata.given /\ Len(call.metadata.list) # Len(call.documents)
IsAdd == call.op = "add_documents"
IsSearch == call.op = "search"
Returns == call.outcome = "returned"

\* C1: in every reachable state the number of texts, of metadata records and of
\* rows of the embedding matrix are equal (no matrix counting as 0 rows).
C1_EqualLengths ==
    /\ Len(documents) = Len(document_metadata)
    /\ Len(documents) = NumRows(embeddings)

\* C2: an add_documents call whose metadata is omitted or of matching length
\* makes the collection (len(self.documents), the size the code uses, and the
\* metadata list with it) larger by the batch length, and the matrix too when it
\* returns; an empty batch leaves the collection and the file unchanged.
C2_SizeGrowsByBatch ==
    [][(IsAdd' /\ ~MetaRejected')
         => /\ Len(documents') = Len(documents) + Len(Batch')
            /\ Len(document_metadata') = Len(document_metadata) + Len(Batch')
            /\ Returns' => NumRows(embeddings') = NumRows(embeddings) + Len(Batch')
            /\ Batch' = <<>> => UNCHANGED <<collection, file>>]_vars

C2_Witness ==
    /\ IsAdd /\ Returns /\ ~call.metadata.given
    /\ Len(Batch) >= 1
    /\ Len(documents) > Len(Batch)

\* C3: a non-empty batch with an explicit metadata list of another length is
\* rejected with an error, and the collection, the provider and the file stay
\* as they were.
C3_MismatchRejected ==
    [][(IsAdd' /\ Batch' # <<>> /\ MetaRejected')
         => /\ call'.outcome = "raised"
            /\ UNCHANGED <<store, file>>]_vars

C3_Witness ==
    /\ IsAdd /\ Batch # <<>> /\ MetaRejected
    /\ call.outcome = "raised"
    /\ Len(documents) > 0
    /\ file.state = "ok"

\* C4: search returns at most min(topK, collection size) results, for every
\* query and every topK.
C4_AtMostTopK ==
    IsSearch => Len(call.results) <= Min(call.top_k, Len(documents))

\* the similarity scores of the last search, for every stored vector
QuerySims ==
    CosineSimilarity(EmbedQuery(embedding_provider, embedding_model, call.query,
                                call.env[1]).vec, embeddings).sims

Selected == {call.top_indices[i] : i \in 1..Len(call.top_indices)}

\* C5: the results of search are the topK highest-similarity records in
\* descending score order, and of two records with equal similarity the one
\* inserted earlier is selected in preference to, and listed before, the other.
C5_StableTopK ==
    (IsSearch /\ call.top_k >= 1 /\ call.results # <<>>)
      => /\ \A i, j \in 1..Len(call.results) :
               i < j => /\ ScoreLE(call.results[j].score, call.results[i].score)
                        /\ ScoreEQ(call.results[j].score, call.results[i].score)
                             => call.top_indices[i] < call.top_indices[j]
         /\ \A i \in Selected, o \in (1..Len(QuerySims)) \ Selected :
               \/ ScoreLT(QuerySims[o], QuerySims[i])
               \/ ScoreEQ(QuerySims[o], QuerySims[i]) /\ i < o

\* every search on the current store, whatever the query, topK and environment
AllSearchesEmpty ==
    \A query \in Texts, top_k \in TopKs, e \in SearchEnv :
       \A order \in SearchOrders(documents, embeddings, embedding_provider,
                                 embedding_model, query, e) :
          Search(documents, document_metadata, embeddings, embedding_provider,
                 embedding_model, query, top_k, e, order).results = <<>>

\* a store constructed now on the storage directory starts empty
FreshStoreEmpty ==
    /\ LoadDatabase(file).documents = <<>>
    /\ LoadDatabase(file).document_metadata = <<>>
    /\ LoadDatabase(file).embeddings = NoneEmb

C7_RoundTrip ==
    [][(/\ IsAdd /\ Returns /\ Batch # <<>> /\ call.save = "ok"
        /\ call'.op = "init" /\ Returns')
         => /\ documents' = documents
            /\ document_metadata' = document_metadata
            /\ embeddings' = embeddings]_vars

C7_Witness ==
    /\ call.op = "init" /\ Returns /\ call.exists
    /\ file.state = "ok"
    /\ Len(documents) = 2
    /\ NumRows(embeddings) = 2

\* C8: after an add_documents call on a non-empty batch that returns and whose
\* write did not fail, the file holds the whole in-memory collection.
C8_FileHoldsCollection ==
    (IsAdd /\ Returns /\ Batch # <<>> /\ call.save = "ok")
      => /\ file.state = "ok"
         /\ file.db.documents = documents
         /\ file.db.document_metadata = document_metadata
         /\ file.db.embeddings = embeddings

C8_Witness ==
    /\ IsAdd /\ Returns /\ Batch # <<>> /\ call.save = "ok"
    /\ Len(documents) > Len(Batch)
    /\ file.db.documents = documents

\* the texts of the last batch whose embedding failed, fallback included
FailedTexts ==
    {i \in 1..Len(call.env) : call.env[i] \in {"init_fail", "enc_fail"}}

\* C9: when the embedding fails for one text of a batch, add_documents returns,
\* the collection grows by the batch length and the placeholder has the
\* dimension of the other vectors.
C9_PlaceholderKeepsBatch ==
    [][(IsAdd' /\ Batch' # <<>> /\ ~MetaRejected' /\ Cardinality(FailedTexts') = 1)
         => /\ Returns'
            /\ Len(documents') = Len(documents) + Len(Batch')
            /\ NumRows(embeddings') = NumRows(embeddings) + Len(Batch')
            /\ SameDim(embeddings'.rows)]_vars

\* the dimension of the vectors the active provider produces
ActiveDim == IF embedding_provider = "google" THEN GoogleDim ELSE STDim

\* C10: all stored vectors have one dimension, and a collection loaded at
\* construction has the dimension of the active provider.
C10_OneDimension ==
    /\ SameDim(embeddings.rows)
    /\ (call.op = "init" /\ Returns)
         => \A i \in 1..Len(embeddings.rows) : embeddings.rows[i].dim = ActiveDim

\* the provider in use raised during an embedding request of the call c: the
\* call requested an embedding and the outside world failed during one
ActiveRaised(c) == c.embeds > 0 /\ \E i \in 1..Len(c.env) : c.env[i] # "ok"

\* C11: once the Google provider raises during an embedding call (of a document
\* or of a query), the store switches to the sentence-transformer fallback, the
\* failing text is stored with the fallback's vector when the call returns, and
\* a store that runs on the fallback never leaves it.
C11_PermanentDowngrade ==
    [][/\ (/\ call'.op \in {"add_documents", "search"}
           /\ embedding_provider = "google"
           /\ ActiveRaised(call'))
          => /\ embedding_provider' = "sentence_transformer"
             /\ embedding_model' = "st"
             /\ (IsAdd' /\ Returns')
                  => \A i \in 1..Len(Batch') :
                        call'.env[i] = "api_down"
                          => embeddings'.rows[NumRows(embeddings) + i]
                               = STEncode(Batch'[i])
       /\ (/\ call'.op \in {"add_documents", "search", "clear"}
           /\ embedding_provider = "sentence_transformer")
          => /\ embedding_provider' = "sentence_transformer"
             /\ embedding_model = "st" => embedding_model' = "st"]_vars

\* the name of the model that __init__ loads when the first one fails:
\* SentenceTransformer(model_name) for "google" (line 41), the simpler
\* sentence-transformer model otherwise (lines 50-51)
SecondaryModelName(provider) ==
    IF provider = "google" THEN DefaultModelName ELSE FallbackModelName

UnreadableFile == [state |-> "unreadable", db |-> NoDatabase]

LoadedKeys == {"documents", "document_metadata", "embeddings"}

\* the dictionary save_database writes for a store holding the one text "cats"
OneRecordDatabase ==
    Database(<<"cats">>, SynthMetadata(1), Matrix(<<STEncode("cats")>>),
             "sentence_transformer", DefaultModelName)

PartialFile(keys) == PickleFile([k \in keys |-> OneRecordDatabase[k]])

\* what the storage directory holds when the first store is constructed on it
DirectoryFiles ==
    {AbsentFile, CorruptFile, UnreadableFile}
      \cup {PartialFile(keys) : keys \in (SUBSET LoadedKeys) \ {LoadedKeys}}

\* a first store constructed on a storage directory that holds any such file
InitAnyFile ==
    /\ file \in DirectoryFiles
    /\ \E provider \in Providers, primaryOk, secondaryOk \in BOOLEAN :
          LET im == InitModel(provider, DefaultModelName, primaryOk, secondaryOk)
              ld == LoadDatabase(file)
          IN /\ primaryOk => secondaryOk
             /\ faulty_calls = IF primaryOk THEN 0 ELSE 1
             /\ alive = ~im.raised
             /\ embedding_provider = im.provider
             /\ model_name = im.model_name
             /\ embedding_model = im.model
             /\ documents = IF im.raised THEN <<>> ELSE ld.documents
             /\ document_metadata = IF im.raised THEN <<>> ELSE ld.document_metadata
             /\ embeddings = IF im.raised THEN NoneEmb ELSE ld.embeddings
             /\ call = [NoCall EXCEPT !.op = "init", !.provider = provider,
                                      !.primary = primaryOk, !.secondary = secondaryOk,
                                      !.exists = ~im.raised /\ file.state # "absent",
                                      !.outcome = IF im.raised THEN "raised"
                                                  ELSE "returned"]
    /\ peer = NoPeer
    /\ task = NoTask

SpecAnyFile == InitAnyFile /\ [][Next]_vars

\* the file holds a pickled dictionary with the three keys load_database reads
CompleteFile(f) == f.state = "ok" /\ LoadedKeys \subseteq DOMAIN f.db

\* C13: a store constructed on a directory whose file is missing, unreadable,
\* corrupt or lacks some of the keys documents / document_metadata / embeddings
\* is constructed without an error from the load and is empty (is_empty()).
C13_BadFileStartsEmpty ==
    (call.op = "init" /\ ~CompleteFile(file))
      => /\ (call.primary \/ call.secondary) => Returns
         /\ Returns => IsEmpty(documents, embeddings)

\* a search of the current store for query fails inside its try block: the
\* query embedding raises, or cosine_similarity does
QueryFails(query, e) ==
    LET q == EmbedQuery(embedding_provider, embedding_model, query, e)
    IN /\ ~NothingToSearch(documents, embeddings)
       /\ q.raised \/ CosineSimilarity(q.vec, embeddings).raised

\* C14: a search whose query embedding or similarity computation fails returns
\* an empty sequence instead of raising, and leaves the collection, the
\* provider and the file as they were.
C14_FailedSearchReturnsEmpty ==
    [][(call'.op = "search" /\ QueryFails(call'.query, call'.env[1]))
         => /\ call'.outcome = "returned"
            /\ call'.results = <<>>
            /\ UNCHANGED <<store, file>>]_vars

C14_Witness ==
    /\ IsSearch /\ call.env = <<"ok">> /\ call.top_k >= 1
    /\ QueryFails(call.query, "ok")
    /\ ~EmbedQuery(embedding_provider, embedding_model, call.query, "ok").raised
    /\ file.state = "ok"
    /\ call.results = <<>>

\* C15: a search on a store whose is_empty() is true (no texts, or no matrix)
\* returns an empty sequence for every query and topK without requesting an
\* embedding.
C15_EmptyStoreSearch ==
    [][(call'.op = "search" /\ IsEmpty(documents, embeddings))
         => /\ call'.results = <<>>
            /\ call'.embeds = 0
            /\ call'.outcome = "returned"]_vars

C15_Witness ==
    /\ IsSearch /\ call.top_k >= 1
    /\ IsEmpty(documents, embeddings)
    /\ Len(documents) > 0
    /\ call.results = <<>> /\ call.embeds = 0

\* some search of the current store, made while the outside world works,
\* returns the record at position i
CanReturn(i) ==
    \E query \in Texts, top_k \in TopKs :
       \E order \in SearchOrders(documents, embeddings, embedding_provider,
                                 embedding_model, query, "ok") :
          LET r == Search(documents, document_metadata, embeddings,
                          embedding_provider, embedding_model, query, top_k, "ok", order)
          IN \E j \in 1..Len(r.top_indices) : r.top_indices[j] = i

\* C16: an add_documents call whose write to the file fails still returns, the
\* store then holds the texts, the metadata and the vectors of the whole batch,
\* and a following search can return each of the new records.
C16_WriteFailureKeepsBatch ==
    [][(IsAdd' /\ Batch' # <<>> /\ ~MetaRejected' /\ call'.save # "ok")
         => /\ Returns'
            /\ documents' = documents \o Batch'
            /\ Len(document_metadata') = Len(document_metadata) + Len(Batch')
            /\ NumRows(embeddings') = NumRows(embeddings) + Len(Batch')
            /\ \A i \in (Len(documents) + 1)..Len(documents') : CanReturn(i)']_vars

\* the part of C16 that does not depend on the search: the call returns and
\* the whole batch is in memory
WriteFailureKeepsBatchInMemory ==
    [][(IsAdd' /\ Batch' # <<>> /\ ~MetaRejected' /\ call'.save # "ok")
         => /\ Returns'
            /\ documents' = documents \o Batch'
            /\ Len(document_metadata') = Len(document_metadata) + Len(Batch')
            /\ NumRows(embeddings') = NumRows(embeddings) + Len(Batch')]_vars

\* the list new starts with the list old
Prefix(old, new) ==
    /\ Len(new) >= Len(old)
    /\ \A i \in 1..Len(old) : new[i] = old[i]

\* C17: across an add_documents call every text, metadata record and vector
\* that the store held stays at its position; search changes nothing; clear
\* removes every record.  No call on a store removes some records only.
C17_AppendOnly ==
    [][/\ IsAdd' => /\ Prefix(documents, documents')
                    /\ Prefix(document_metadata, document_metadata')
                    /\ Prefix(embeddings.rows, embeddings'.rows)
       /\ call'.op = "search" => UNCHANGED collection
       /\ call'.op = "clear" => /\ documents' = <<>>
                                /\ document_metadata' = <<>>
                                /\ embeddings' = NoneEmb]_vars

C17_Witness ==
    /\ IsAdd /\ Returns /\ Len(Batch) = 1
    /\ Len(documents) = 2 /\ documents[1] # documents[2]
    /\ NumRows(embeddings) = 2 /\ embeddings.rows[1] # embeddings.rows[2]
    /\ file.state = "ok"

\* the stored vector at position i is the zero vector (a placeholder)
IsZeroVector(i) == i <= NumRows(embeddings) /\ Norm2(embeddings.rows[i]) = 0
NonZeroRecords == {i \in 1..NumRows(embeddings) : Norm2(embeddings.rows[i]) > 0}
ScoreZero == [num |-> 0, den |-> 1]

\* C18 as stated: in every search result a zero-vector placeholder record comes
\* after every record whose vector is not zero, and it is returned only when
\* topK exceeds the number of records whose vector is not zero.
C18_PlaceholderSortsLast ==
    (IsSearch /\ call.top_k >= 1 /\ call.results # <<>>)
      => /\ \A i, j \in 1..Len(call.top_indices) :
               (IsZeroVector(call.top_indices[i]) /\ ~IsZeroVector(call.top_indices[j]))
                 => j < i
         /\ (\E i \in Selected : IsZeroVector(i))
              => call.top_k > Cardinality(NonZeroRecords)

\* C18 amended: a zero-vector placeholder record scores 0 against every query;
\* in every search result it comes after every record whose score is positive
\* and before every record whose score is negative, and it is returned only
\* together with all the records whose score is positive.
C18_PlaceholderScoresZero ==
    (IsSearch /\ call.results # <<>>)
      => /\ \A i, j \in 1..Len(call.results) :
               IsZeroVector(call.top_indices[i])
                 => /\ ScoreEQ(call.results[i].score, ScoreZero)
                    /\ ScoreLT(ScoreZero, call.results[j].score) => j < i
                    /\ ScoreLT(call.results[j].score, ScoreZero) => i < j
         /\ (\E i \in Selected : IsZeroVector(i))
              => \A o \in 1..Len(QuerySims) :
                    ScoreLT(ScoreZero, QuerySims[o]) => o \in Selected

C18_Witness ==
    /\ IsSearch /\ Len(call.results) = 2
    /\ IsZeroVector(call.top_indices[1])
    /\ ~IsZeroVector(call.top_indices[2])
    /\ ScoreLT(call.results[2].score, ScoreZero)

\* ------------------------------------------------------------- two sessions, one directory
\* The application keeps one VectorStore per user session, all of them on the
\* default directory (app.py lines 87-92).  The variables of the store are the
\* store of the session that runs; peer is the store of the other session.

\* the store that VectorStore(provider) builds on an empty directory
FreshStore(provider, primaryOk, secondaryOk) ==
    LET im == InitModel(provider, DefaultModelName, primaryOk, secondaryOk)
    IN [alive |-> ~im.raised, embedding_provider |-> im.provider,
        model_name |-> im.model_name, embedding_model |-> im.model,
        documents |-> <<>>, document_metadata |-> <<>>, embeddings |-> NoneEmb,
        call |-> [NoCall EXCEPT !.op = "init", !.provider = provider,
                                !.primary = primaryOk, !.secondary = secondaryOk,
                                !.outcome = IF im.raised THEN "raised" ELSE "returned"]]

\* the store of the session that runs, as a record
ThisStore ==
    [alive |-> alive, embedding_provider |-> embedding_provider,
     model_name |-> model_name, embedding_model |-> embedding_model,
     documents |-> documents, document_metadata |-> document_metadata,
     embeddings |-> embeddings, call |-> call]

\* two sessions were opened while the directory was empty
InitShared ==
    /\ file = AbsentFile
    /\ faulty_calls = 0
    /\ task = NoTask
    /\ \E p1, p2 \in Providers :
          LET s == FreshStore(p1, TRUE, TRUE)
          IN /\ alive = s.alive
             /\ embedding_provider = s.embedding_provider
             /\ model_name = s.model_name
             /\ embedding_model = s.embedding_model
             /\ documents = s.documents
             /\ document_metadata = s.document_metadata
             /\ embeddings = s.embeddings
             /\ call = s.call
             /\ peer = FreshStore(p2, TRUE, TRUE)

\* the next call comes from the other session
SwitchSession ==
    /\ peer.alive
    /\ alive' = peer.alive
    /\ embedding_provider' = peer.embedding_provider
    /\ model_name' = peer.model_name
    /\ embedding_model' = peer.embedding_model
    /\ documents' = peer.documents
    /\ document_metadata' = peer.document_metadata
    /\ embeddings' = peer.embeddings
    /\ call' = peer.call
    /\ peer' = ThisStore
    /\ UNCHANGED <<file, faulty_calls, task>>

\* process_pdf: add_documents(chunks, metadata_list), one metadata record per
\* chunk, while the outside world works
SessionAdd ==
    \E docs \in Batches :
       /\ AddDocuments(docs, GivenMeta(Len(docs)), AllOk(Len(docs)), "ok")
       /\ UNCHANGED <<peer, task>>

\* the "Clear PDFs" button: clear()
SessionClear == Clear(TRUE) /\ UNCHANGED <<peer, task>>

NextShared == SessionAdd \/ SessionClear \/ SwitchSession

SpecShared == InitShared /\ [][NextShared]_vars

\* the last call of a session was an add_documents call that returned and
\* wrote the file
LastAppendSaved(c) ==
    /\ c.op = "add_documents" /\ c.outcome = "returned"
    /\ c.documents # <<>> /\ c.save = "ok"

FileHolds(s) ==
    /\ file.state = "ok"
    /\ file.db.documents = s.documents
    /\ file.db.document_metadata = s.document_metadata
    /\ file.db.embeddings = s.embeddings

\* C19: with two stores on one directory whose add_documents and clear calls
\* interleave, the file equals the in-memory collection of each store whose
\* last call was a successful append: neither store's persisted records are
\* overwritten or deleted by a call of the other.
C19_FileEqualsEachInstance ==
    /\ LastAppendSaved(call) => FileHolds(ThisStore)
    /\ LastAppendSaved(peer.call) => FileHolds(peer)

\* ------------------------------------------------------------- interleaved calls on one store
\* The store has no lock.  When a search runs while add_documents or clear is
\* in progress on the same store, the statements of the two calls interleave;
\* each action below is one statement (or one run of statements that touch
\* no shared attribute) of add_documents, clear or search.  task.writer is the
\* add_documents or clear call in progress, task.reader the search in progress.
\* The outside world works in this specification.

\* lines 94-104: the checks, then self.documents.extend(documents)
AddExtendDocuments(docs, meta) ==
    /\ alive /\ task.writer.pc = "idle"
    /\ ~EmptyBatch(docs)
    /\ ~(meta.given /\ MetadataMismatch(meta.list, docs))
    /\ Len(documents) + Len(docs) <= MaxDocs
    /\ documents' = Extend(documents, docs)
    /\ task' = [task EXCEPT !.writer =
                   [pc |-> "add_104", documents |-> docs,
                    metadata |-> IF meta.given THEN meta.list
                                 ELSE SynthMetadata(Len(docs))]]
    /\ UNCHANGED <<alive, embedding_provider, model_name, embedding_model,
                   document_metadata, embeddings, file, faulty_calls, call, peer>>

\* line 105: self.document_metadata.extend(metadata)
AddExtendMetadata ==
    /\ task.writer.pc = "add_104"
    /\ document_metadata' = Extend(document_metadata, task.writer.metadata)
    /\ task' = [task EXCEPT !.writer.pc = "add_105"]
    /\ UNCHANGED <<alive, embedding_provider, model_name, embedding_model,
                   documents, embeddings, file, faulty_calls, call, peer>>

\* lines 107-125: the embedding loop, np.array, and the assignment of
\* self.embeddings; an exception ends the call
AddEmbed ==
    /\ task.writer.pc = "add_105"
    /\ LET docs == task.writer.documents
           loop == EmbedLoop(embedding_provider, embedding_model, docs,
                             AllOk(Len(docs)), <<>>)
           arr == NpArray(loop.new_embeddings)
           stacked == IF arr.raised THEN arr
                      ELSE IF embeddings.isNone THEN arr
                      ELSE VStack(embeddings, arr.value)
       IN /\ embedding_provider' = loop.provider
          /\ embedding_model' = loop.model
          /\ IF stacked.raised
             THEN /\ task' = [task EXCEPT !.writer = IdleWriter]
                  /\ UNCHANGED embeddings
             ELSE /\ task' = [task EXCEPT !.writer.pc = "add_125"]
                  /\ embeddings' = stacked.value
    /\ UNCHANGED <<alive, model_name, documents, document_metadata, file,
                   faulty_calls, call, peer>>

\* line 128: self.save_database()
AddSave ==
    /\ task.writer.pc = "add_125"
    /\ file' = SaveDatabase(file, documents, document_metadata, embeddings,
                            embedding_provider, model_name, "ok")
    /\ task' = [task EXCEPT !.writer = IdleWriter]
    /\ UNCHANGED <<store, faulty_calls, call, peer>>

\* line 216: self.documents = []
ClearDocuments ==
    /\ alive /\ task.writer.pc = "idle"
    /\ documents' = <<>>
    /\ task' = [task EXCEPT !.writer.pc = "clear_216"]
    /\ UNCHANGED <<alive, embedding_provider, model_name, embedding_model,
                   document_metadata, embeddings, file, faulty_calls, call, peer>>

\* line 217: self.document_metadata = []
ClearMetadata ==
    /\ task.writer.pc = "clear_216"
    /\ document_metadata' = <<>>
    /\ task' = [task EXCEPT !.writer.pc = "clear_217"]
    /\ UNCHANGED <<alive, embedding_provider, model_name, embedding_model,
                   documents, embeddings, file, faulty_calls, call, peer>>

\* line 218: self.embeddings = None
ClearEmbeddings ==
    /\ task.writer.pc = "clear_217"
    /\ embeddings' = NoneEmb
    /\ task' = [task EXCEPT !.writer.pc = "clear_218"]
    /\ UNCHANGED <<alive, embedding_provider, model_name, embedding_model,
                   documents, document_metadata, file, faulty_calls, call, peer>>

\* lines 221-226: the removal of the file
ClearRemove ==
    /\ task.writer.pc = "clear_218"
    /\ file' = RemoveFile(file, TRUE)
    /\ task' = [task EXCEPT !.writer = IdleWriter]
    /\ UNCHANGED <<store, faulty_calls, call, peer>>

\* lines 141-142: the guard of search
SearchGuard(query, top_k) ==
    /\ alive /\ task.reader.pc = "idle"
    /\ task' = [task EXCEPT !.reader =
                   IF NothingToSearch(documents, embeddings) THEN IdleReader
                   ELSE [IdleReader EXCEPT !.query = query, !.top_k = top_k,
                                           !.pc = "s141"]]
    /\ UNCHANGED <<store, file, faulty_calls, call, peer>>

\* lines 146-156: the query embedding and cosine_similarity(query_embedding,
\* self.embeddings), which raises when self.embeddings is None by now
SearchScore ==
    /\ task.reader.pc = "s141"
    /\ LET q == EmbedQuery(embedding_provider, embedding_model, task.reader.query, "ok")
           cs == CosineSimilarity(q.vec, embeddings)
       IN IF q.raised \/ embeddings.isNone \/ cs.raised
          THEN task' = [task EXCEPT !.reader = IdleReader]
          ELSE task' = [task EXCEPT !.reader.pc = "s156", !.reader.q = q.vec,
                                    !.reader.sims = cs.sims]
    /\ UNCHANGED <<store, file, faulty_calls, call, peer>>

\* lines 159-160: k = min(top_k, len(self.documents)) and the argsort
SearchRank(order) ==
    /\ task.reader.pc = "s156"
    /\ order \in Argsort(task.reader.sims)
    /\ task' = [task EXCEPT !.reader.pc = "s160",
                            !.reader.top_indices =
                               TopIndices(order, Min(task.reader.top_k, Len(documents)))]
    /\ UNCHANGED <<store, file, faulty_calls, call, peer>>

\* lines 163-174: the loop over top_indices, which reads self.documents and
\* self.document_metadata, and the return (of [] after an exception)
SearchCollect ==
    /\ task.reader.pc = "s160"
    /\ LET built == BuildResults(documents, document_metadata, task.reader.sims,
                                 task.reader.top_indices)
       IN task' = [task EXCEPT !.reader =
                      [IdleReader EXCEPT !.results = IF built.raised THEN <<>>
                                                     ELSE built.results]]
    /\ UNCHANGED <<store, file, faulty_calls, call, peer>>

WriterStep ==
    \/ \E docs \in Batches : \E meta \in MetaInputs(docs) : AddExtendDocuments(docs, meta)
    \/ AddExtendMetadata
    \/ AddEmbed
    \/ AddSave
    \/ ClearDocuments
    \/ ClearMetadata
    \/ ClearEmbeddings
    \/ ClearRemove

ReaderStep ==
    \/ \E query \in Texts, top_k \in TopKs : SearchGuard(query, top_k)
    \/ SearchScore
    \/ \E order \in Argsort(task.reader.sims) : SearchRank(order)
    \/ SearchCollect

NextInterleaved == WriterStep \/ ReaderStep

SpecInterleaved == Init /\ [][NextInterleaved]_vars

\* the search in progress executes a statement
SearchReads == task'.reader # task.reader

\* C20: whenever a search that runs interleaved with add_documents or clear
\* reads the store, the number of texts equals the number of rows of the
\* matrix, and every result it returns holds the text, the metadata and the
\* similarity score of one and the same record of the store.
C20_NoHalfAppendedSeen ==
    [][SearchReads
         => /\ Len(documents) = NumRows(embeddings)
            /\ task.reader.pc = "s160"
                 => \A j \in 1..Len(task'.reader.results) :
                       LET idx == task.reader.top_indices[j]
                           r == task'.reader.results[j]
                       IN /\ idx <= NumRows(embeddings)
                          /\ r.text = documents[idx]
                          /\ r.metadata = document_metadata[idx]
                          /\ r.score = Cosine(task.reader.q, embeddings.rows[idx])]_vars

====
